---- MODULE Spec2Model ----
(***************************************************************************)
(* Job lifecycle, usage ledger, notification bus and real-time gateway of  *)
(* the ocrbase server.                                                     *)
(*                                                                         *)
(* Job Store : updateJobStatus, completeJob, failJob                       *)
(* Gateway   : jobsWebSocket open / close handlers                         *)
(* Bus       : subscribeToJob / unsubscribeFromJob / publishJobUpdate      *)
(*             (services/websocket, not among the sources: modelled from   *)
(*             section 4.3 of the specification)                           *)
(*                                                                         *)
(* Every `await` of a handler is a step boundary: one action is the code   *)
(* that runs between two awaits.                                           *)
(***************************************************************************)
EXTENDS Integers, Sequences, FiniteSets, TLC

\* ------------------------------------------------------------------ bounds
NumWorkers == 2      \* Job Store calls that may be in flight together
MaxCalls == 2        \* Job Store calls started in one behaviour
NumConns == 2        \* gateway connections
MaxDay == 2          \* calendar days the clock runs through
MaxPages == 1        \* largest page count of a result
MaxMessages == 2     \* messages a peer sends on one connection
NumSubscriptions == 2 \* subscribeToJob calls of the SDK client
MaxPings == 2        \* times the ping timers of one subscription fire

\* ------------------------------------------------------------------ values
Null == "null"

Workers == 1..NumWorkers
Conns == 1..NumConns
Subscriptions == 1..NumSubscriptions
Days == 1..MaxDay

\* rows present in the jobs table, and one identifier that matches no row
JobIds == {"job_a", "job_b", "job_c"}
ApiKeyIds == {"ak_1"}
MissingJobId == "job_x"
AllJobIds == JobIds \cup {MissingJobId}
Organizations == {"org_A", "org_B"}

JobStatus == {"pending", "processing", "extracting", "completed", "failed"}

\* optional values: <<>> is undefined/null, <<x>> is x
None == <<>>
Some(x) == <<x>>

\* CompleteJobResult values the worker may pass; jsonResult, tokenCount, llmModel
\* and llmUsage are optional (absent together for a parse job)
Markdowns == <<"md0", "md1", "md2", "md3">>
ParseResult(p) ==
    [ markdownResult |-> Markdowns[p + 1], jsonResult |-> None, pageCount |-> p,
      tokenCount |-> None, llmModel |-> None, llmUsage |-> None,
      processingTimeMs |-> "t2" ]
ExtractResult(p) ==
    [ markdownResult |-> Markdowns[p + 1], jsonResult |-> Some("json"),
      pageCount |-> p, tokenCount |-> Some(3), llmModel |-> Some("m1"),
      llmUsage |-> Some([promptTokens |-> 2, completionTokens |-> 1]),
      processingTimeMs |-> "t2" ]
Results == { ParseResult(p) : p \in 0..MaxPages } \cup { ExtractResult(MaxPages) }

\* the optional third argument of updateJobStatus: any of the fields of
\* UpdateData but status
UpdateDatas ==
    { None,
      Some([processingTimeMs |-> "t1"]),
      Some([markdownResult |-> "md1", pageCount |-> Some(1)]),
      Some([errorCode |-> "OCR_FAILED", errorMessage |-> "ocr failed"]) }

VARIABLES
    jobs,              \* table jobs: id -> row
    usageEvents,       \* table usage_events: set of rows
    apiKeyUsageDaily,  \* table api_key_usage_daily: set of rows
    subscribers,       \* Notification Bus registry: jobId -> set of callbacks
    worker,            \* per Job Store call in flight: position and locals
    calls,             \* number of Job Store calls started
    conn,              \* per gateway connection: handler position and ws.data
    sent,              \* per connection: messages handed to the peer, in order
    published,         \* per job: messages handed to publishJobUpdate, in order
    clock,             \* current calendar day (UTC)
    busCall,           \* the last call made to the bus by a caller other than
                       \* the gateway's handlers (none: <<>>)
    sdk                \* per subscribeToJob call of the SDK: its socket, its
                       \* pingInterval and the timers that run

vars == <<jobs, usageEvents, apiKeyUsageDaily, subscribers, worker, calls,
          conn, sent, published, clock, busCall, sdk>>

\* ------------------------------------------------------------------ tables
JobRow(org, key) ==
    [ organizationId |-> org, apiKeyId |-> key, status |-> "pending",
      markdownResult |-> Null, jsonResult |-> Null, llmModel |-> Null,
      pageCount |-> None, tokenCount |-> None, completedAt |-> None,
      processingTimeMs |-> Null, errorCode |-> Null, errorMessage |-> Null,
      retryCount |-> 0,
      fileKey |-> Null, fileName |-> "f0", fileSize |-> 0, mimeType |-> "m0",
      commits |-> 0 ]    \* number of writes committed to the row (commit order)

InitJobs ==
    [ j \in JobIds |->
        CASE j = "job_a" -> JobRow("org_A", "ak_1")
          [] j = "job_b" -> JobRow("org_A", "ak_1")
          [] OTHER       -> JobRow("org_B", Null) ]

IdleWorker ==
    [ pc |-> "idle", op |-> Null, call |-> 0, jobId |-> Null, status |-> Null, data |-> None,
      result |-> None, errorCode |-> Null, errorMessage |-> Null,
      shouldRetry |-> FALSE, apiKeyId |-> Null, today |-> 0, retryCount |-> 0,
      txEvent |-> None, written |-> FALSE, txDone |-> FALSE, seq |-> 0,
      fileInfo |-> None,
      outcome |-> Null ]   \* how the call's promise settled

NewConn ==
    [ pc |-> "new", jobId |-> Null, cred |-> None, organizationId |-> Null,
      job |-> None, wsData |-> None, closed |-> FALSE, closedBy |-> Null,
      closeHandled |-> FALSE,
      cleaned |-> FALSE,    \* the close handler found wsData and unsubscribed
      received |-> 0,       \* messages the message handler has been given
      lastMessage |-> None ]

\* the closure of one subscribeToJob call before the call: no socket,
\* pingInterval = null
NewSubscription ==
    [ ws |-> "none", pingInterval |-> None, timers |-> {}, intervals |-> 0,
      pings |-> 0, unsubscribed |-> FALSE ]

Init ==
    /\ jobs = InitJobs
    /\ usageEvents = {}
    /\ apiKeyUsageDaily = {}
    /\ subscribers = [j \in AllJobIds |-> {}]
    /\ worker = [w \in Workers |-> IdleWorker]
    /\ calls = 0
    /\ conn = [c \in Conns |-> NewConn]
    /\ sent = [c \in Conns |-> <<>>]
    /\ published = [j \in AllJobIds |-> <<>>]
    /\ clock = 1
    /\ busCall = None
    /\ sdk = [s \in Subscriptions |-> NewSubscription]

\* ------------------------------------------------------------------ messages
\* JobUpdateMessage values built by the Job Store
\* StatusMessage with the processing duration left out
StatusMessageWithoutDuration(jobId, status, data) ==
    [ type |-> "status", jobId |-> jobId,
      data |-> [ status |-> status, processingTimeMs |-> None ] ]

StatusMessage(jobId, status, data) ==
    [ type |-> "status", jobId |-> jobId,
      data |-> [ status |-> status,
                 processingTimeMs |->
                     IF data # None /\ "processingTimeMs" \in DOMAIN data[1]
                     THEN Some(data[1].processingTimeMs)
                     ELSE None ] ]

\* CompletedMessage with the JSON result left out
CompletedMessageWithoutJson(jobId, result) ==
    [ type |-> "completed", jobId |-> jobId,
      data |-> [ status |-> "completed", markdownResult |-> result.markdownResult,
                 jsonResult |-> None,
                 processingTimeMs |-> Some(result.processingTimeMs) ] ]

CompletedMessage(jobId, result) ==
    [ type |-> "completed", jobId |-> jobId,
      data |-> [ status |-> "completed", markdownResult |-> result.markdownResult,
                 jsonResult |-> result.jsonResult,
                 processingTimeMs |-> Some(result.processingTimeMs) ] ]

ErrorMessage(jobId, errorMessage) ==
    [ type |-> "error", jobId |-> jobId,
      data |-> [ status |-> "failed", error |-> errorMessage ] ]

\* JSON.stringify: a key whose value is undefined is left out of the text
Stringify(m) ==
    CASE m.type = "status" ->
            IF m.data.processingTimeMs = None
            THEN [ type |-> "status", jobId |-> m.jobId,
                   data |-> [ status |-> m.data.status ] ]
            ELSE [ type |-> "status", jobId |-> m.jobId,
                   data |-> [ status |-> m.data.status,
                              processingTimeMs |-> m.data.processingTimeMs[1] ] ]
      [] m.type = "completed" ->
            IF m.data.jsonResult = None
            THEN [ type |-> "completed", jobId |-> m.jobId,
                   data |-> [ status |-> "completed",
                              markdownResult |-> m.data.markdownResult,
                              processingTimeMs |-> m.data.processingTimeMs[1] ] ]
            ELSE [ type |-> "completed", jobId |-> m.jobId,
                   data |-> [ status |-> "completed",
                              markdownResult |-> m.data.markdownResult,
                              jsonResult |-> m.data.jsonResult[1],
                              processingTimeMs |-> m.data.processingTimeMs[1] ] ]
      [] OTHER -> m

\* an entry of sent / published: the text, and which call's write it reports
\* (call = 0: a message of the gateway itself)
Entry(text, call, seq, committed) ==
    [ text |-> text, call |-> call, seq |-> seq, committed |-> committed ]

\* ------------------------------------------------------------------ Notification Bus
SubscribeToJob(subs, jobId, callback) ==
    [subs EXCEPT ![jobId] = @ \cup {callback}]

\* UnsubscribeFromJob forgetting the job's other callbacks with the one removed
UnsubscribeFromJobDropsJob(subs, jobId, callback) ==
    [subs EXCEPT ![jobId] = {}]

UnsubscribeFromJob(subs, jobId, callback) ==
    [subs EXCEPT ![jobId] = @ \ {callback}]

\* subscribe(jobId, callback) called on the bus directly
BusSubscribe(jobId, callback) ==
    /\ subscribers' = SubscribeToJob(subscribers, jobId, callback)
    /\ busCall' = Some([op |-> "subscribe", jobId |-> jobId, callback |-> callback,
                        member |-> callback \in subscribers[jobId],
                        raised |-> FALSE])
    /\ UNCHANGED <<sdk, jobs, usageEvents, apiKeyUsageDaily, worker, calls, conn, sent,
                   published, clock>>

\* whether unsubscribe throws: never, member or not
UnsubscribeRaises(subs, jobId, callback) == FALSE

\* unsubscribe(jobId, callback) called on the bus directly
BusUnsubscribe(jobId, callback) ==
    /\ subscribers' = UnsubscribeFromJob(subscribers, jobId, callback)
    /\ busCall' = Some([op |-> "unsubscribe", jobId |-> jobId, callback |-> callback,
                        member |-> callback \in subscribers[jobId],
                        raised |-> UnsubscribeRaises(subscribers, jobId, callback)])
    /\ UNCHANGED <<sdk, jobs, usageEvents, apiKeyUsageDaily, worker, calls, conn, sent,
                   published, clock>>

\* WsSend putting the message ahead of those already queued
WsSendFront(c, q, entry) ==
    IF conn[c].closed THEN q ELSE <<entry>> \o q

\* ws.send: nothing reaches the peer of a closed socket
WsSend(c, q, entry) ==
    IF conn[c].closed THEN q ELSE Append(q, entry)

\* the callback the open handler registers for connection c
Callback(c, q, message, call, seq, committed) ==
    WsSend(c, q, Entry(Stringify(message), call, seq, committed))

\* the callbacks of a job whose ws.send may throw: those of a closed socket
MayThrow(jobId) == { c \in subscribers[jobId] : conn[c].closed }

\* a publication: the entry handed to the bus, the callbacks the bus has called
\* with it and those of them that threw
Publication(entry, to, threw) ==
    [ text |-> entry.text, call |-> entry.call, seq |-> entry.seq,
      committed |-> entry.committed, to |-> to, threw |-> threw ]

\* DeliveredTo with the loop over the callbacks (in the order of their
\* subscription) ended by the first one that throws
DeliveredToUntilFault(subs, threw) ==
    { c \in subs : \A t \in threw : c <= t }

\* DeliveredTo with the callbacks of every job called
DeliveredToAll(subs, threw) == UNION { subscribers[k] : k \in AllJobIds }

\* the callbacks publish calls: every subscribed one, whichever of them throw
DeliveredTo(subs, threw) == subs

\* PublishRejects with a callback's exception left uncaught
PublishRejectsOnFault(threw) == threw # {}

\* whether publishJobUpdate's promise rejects: a callback's exception is caught
\* inside the bus
PublishRejects(threw) == FALSE

\* publishJobUpdate: every callback subscribed for jobId is called with the
\* message; threw are the callbacks that throw
PublishJobUpdate(w, message, threw) ==
    LET j == worker[w].jobId
        committed == worker[w].written /\ (worker[w].apiKeyId # Null => worker[w].txDone)
        to == DeliveredTo(subscribers[j], threw)
    IN  /\ published' = [published EXCEPT ![j] =
              Append(@, Publication(Entry(message, worker[w].call, worker[w].seq,
                                          committed), to, threw))]
        /\ sent' = [c \in Conns |->
              IF c \in to /\ c \notin threw
              THEN Callback(c, sent[c], message, worker[w].call, worker[w].seq, committed)
              ELSE sent[c]]

\* await publishJobUpdate(...): a rejection is the call's own
AwaitPublish(rejects) == IF rejects THEN "rejected" ELSE "resolved"

\* ------------------------------------------------------------------ Job Store
\* UPDATE jobs SET ... WHERE id = jobId: no row matches an unknown id
UpdateJobs(jobId, newRow) ==
    IF jobId \in DOMAIN jobs
    THEN [jobs EXCEPT ![jobId] = [newRow EXCEPT !.commits = @ + 1]]
    ELSE jobs

\* the row an UPDATE ... WHERE id = jobId works on (none: the SET is not applied)
RowOf(jobId) ==
    IF jobId \in DOMAIN jobs THEN jobs[jobId] ELSE JobRow(Null, Null)

CommitsAfter(jobId) ==
    IF jobId \in DOMAIN jobs THEN jobs[jobId].commits + 1 ELSE 0

\* a column of the row after ...data: the field's value if data has it
DataField(data, f, old) ==
    IF data # None /\ f \in DOMAIN data[1] THEN data[1][f] ELSE old

\* .set({ status, ...data })
StatusSet(row, status, data) ==
    [row EXCEPT !.status = status,
                !.markdownResult = DataField(data, "markdownResult", @),
                !.jsonResult = DataField(data, "jsonResult", @),
                !.pageCount = DataField(data, "pageCount", @),
                !.tokenCount = DataField(data, "tokenCount", @),
                !.errorCode = DataField(data, "errorCode", @),
                !.errorMessage = DataField(data, "errorMessage", @),
                !.retryCount = DataField(data, "retryCount", @),
                !.completedAt = DataField(data, "completedAt", @),
                !.processingTimeMs = DataField(data, "processingTimeMs", @)]

\* a column given as undefined is left as it is
SetOpt(old, opt) == IF opt = None THEN old ELSE opt[1]

\* a call starts in the first free slot (the slots are interchangeable)
FreeSlot(w) ==
    /\ worker[w].pc = "idle"
    /\ \A v \in Workers : v < w => worker[v].pc # "idle"
    /\ calls < MaxCalls

\* updateJobStatus, up to the end of its UPDATE
UpdateJobStatusWrite(w, jobId, status, data) ==
    /\ FreeSlot(w)
    /\ calls' = calls + 1
    /\ jobs' = UpdateJobs(jobId, StatusSet(RowOf(jobId), status, data))
    /\ worker' = [worker EXCEPT ![w] =
          [IdleWorker EXCEPT !.pc = "us_publish", !.op = "updateJobStatus",
                             !.call = calls + 1,
                             !.jobId = jobId, !.status = status, !.data = data,
                             !.written = TRUE, !.seq = CommitsAfter(jobId)]]
    /\ UNCHANGED <<sdk, usageEvents, apiKeyUsageDaily, subscribers, conn, sent,
                   published, clock,
                   busCall>>

\* updateJobStatus: publishJobUpdate and return
UpdateJobStatusPublish(w) ==
    /\ worker[w].pc = "us_publish"
    /\ \E threw \in SUBSET MayThrow(worker[w].jobId) :
          /\ PublishJobUpdate(w, StatusMessage(worker[w].jobId, worker[w].status, worker[w].data),
                              threw)
          /\ worker' = [worker EXCEPT ![w] =
                 [@ EXCEPT !.pc = "done",
                           !.outcome = AwaitPublish(PublishRejects(threw))]]
    /\ UNCHANGED <<sdk, jobs, usageEvents, apiKeyUsageDaily, subscribers, calls, conn, clock,
                   busCall>>

\* the promise of a Job Store call resolves
Return(w) ==
    /\ worker[w].pc = "done"
    /\ worker' = [worker EXCEPT ![w] = IdleWorker]
    /\ UNCHANGED <<sdk, jobs, usageEvents, apiKeyUsageDaily, subscribers, calls, conn,
                   sent, published, clock,
                   busCall>>


\* .set({ completedAt, jsonResult, llmModel, markdownResult, pageCount,
\*        processingTimeMs, status: "completed", tokenCount })
CompletedSet(row, result, completedAt) ==
    [row EXCEPT !.completedAt = Some(completedAt),
                !.jsonResult = SetOpt(@, result.jsonResult),
                !.llmModel = SetOpt(@, result.llmModel),
                !.markdownResult = result.markdownResult,
                !.pageCount = Some(result.pageCount),
                !.processingTimeMs = result.processingTimeMs,
                !.status = "completed",
                !.tokenCount = IF result.tokenCount = None THEN @ ELSE result.tokenCount]

\* .returning({ apiKeyId: jobs.apiKeyId }) of the UPDATE; undefined without a row
ReturningApiKeyId(jobId) ==
    IF jobId \in DOMAIN jobs THEN jobs[jobId].apiKeyId ELSE Null

\* AfterCompleteWrite with the API key not tested
AfterCompleteWriteAlwaysLedger(apiKeyId) ==
    "cj_tx_insert"

\* AfterCompleteWrite with the usage transaction left for later
AfterCompleteWriteNoLedger(apiKeyId) ==
    "cj_publish"

\* where completeJob goes after its UPDATE: if (updatedJob?.apiKeyId)
AfterCompleteWrite(apiKeyId) ==
    IF apiKeyId # Null THEN "cj_tx_insert" ELSE "cj_publish"

\* completeJob, up to the end of its UPDATE
CompleteJobWrite(w, jobId, result) ==
    /\ FreeSlot(w)
    /\ calls' = calls + 1
    /\ jobs' = UpdateJobs(jobId, CompletedSet(RowOf(jobId), result, clock))
    /\ worker' = [worker EXCEPT ![w] =
          [IdleWorker EXCEPT !.pc = AfterCompleteWrite(ReturningApiKeyId(jobId)),
                             !.op = "completeJob",
                             !.call = calls + 1, !.jobId = jobId,
                             !.result = Some(result),
                             !.apiKeyId = ReturningApiKeyId(jobId),
                             !.today = clock,
                             !.written = TRUE, !.seq = CommitsAfter(jobId)]]
    /\ UNCHANGED <<sdk, usageEvents, apiKeyUsageDaily, subscribers, conn, sent,
                   published, clock,
                   busCall>>

PromptTokens(result) ==
    IF result.llmUsage = None THEN 0 ELSE result.llmUsage[1].promptTokens

CompletionTokens(result) ==
    IF result.llmUsage = None THEN 0 ELSE result.llmUsage[1].completionTokens

\* the row INSERT INTO usage_events would add; created_at DEFAULT now()
UsageEventRow(id, apiKeyId, jobId, result, createdAt) ==
    [ id |-> id, apiKeyId |-> apiKeyId, jobId |-> jobId,
      model |-> SetOpt(Null, result.llmModel), pages |-> result.pageCount,
      promptTokens |-> PromptTokens(result),
      completionTokens |-> CompletionTokens(result),
      createdAt |-> createdAt ]

\* Inserted without the unique constraint on job_id: every INSERT adds a row
InsertedWithoutConstraint(jobId) ==
    TRUE

\* .onConflictDoNothing({ target: usageEvents.jobId }).returning(...): a row comes
\* back exactly when none with this job_id exists (usage_events_job_id_unique)
Inserted(jobId) ==
    ~ \E e \in usageEvents : e.jobId = jobId

\* INSERT INTO api_key_usage_daily ... ON CONFLICT (api_key_id, day) DO UPDATE
UpsertDaily(daily, apiKeyId, day, result) ==
    IF \E r \in daily : r.apiKeyId = apiKeyId /\ r.day = day
    THEN { IF r.apiKeyId = apiKeyId /\ r.day = day
           THEN [r EXCEPT !.completionTokens = @ + CompletionTokens(result),
                          !.jobsCount = @ + 1,
                          !.pages = @ + result.pageCount,
                          !.promptTokens = @ + PromptTokens(result)]
           ELSE r : r \in daily }
    ELSE daily \cup
           { [ apiKeyId |-> apiKeyId, day |-> day, jobsCount |-> 1,
               pages |-> result.pageCount, promptTokens |-> PromptTokens(result),
               completionTokens |-> CompletionTokens(result) ] }

\* DailyAfter without the `if (inserted)` test
DailyAfterUnconditional(daily, inserted, apiKeyId, day, result) ==
    UpsertDaily(daily, apiKeyId, day, result)

\* if (inserted) { upsert }
DailyAfter(daily, inserted, apiKeyId, day, result) ==
    IF inserted THEN UpsertDaily(daily, apiKeyId, day, result) ELSE daily

\* InsertInTransaction with the INSERT committed on its own
InsertAutocommit(events, row) == events \cup {row}

\* usage_events as the other sessions see it after an INSERT inside
\* db.transaction: the row is not there before the commit
InsertInTransaction(events, row) == events

\* another transaction holds an uncommitted usage_events row of this job: the
\* INSERT waits for it to end
InsertBlocked(w) ==
    \E v \in Workers \ {w} :
        worker[v].txEvent # None /\ worker[v].jobId = worker[w].jobId

\* completeJob's transaction: the INSERT into usage_events. Without a row
\* returned the callback ends and the transaction commits with no change.
CompleteJobTxInsert(w) ==
    /\ worker[w].pc = "cj_tx_insert"
    /\ ~InsertBlocked(w)
    /\ LET me == worker[w]
           inserted == Inserted(me.jobId)
           row == UsageEventRow(me.call, me.apiKeyId, me.jobId, me.result[1], clock)
       IN  /\ worker' = [worker EXCEPT ![w] =
                  IF inserted
                  THEN [me EXCEPT !.pc = "cj_tx_upsert", !.txEvent = Some(row)]
                  ELSE [me EXCEPT !.pc = "cj_publish", !.txDone = TRUE]]
           /\ usageEvents' =
                  IF inserted THEN InsertInTransaction(usageEvents, row)
                  ELSE usageEvents
           /\ apiKeyUsageDaily' =
                  IF inserted THEN apiKeyUsageDaily
                  ELSE DailyAfter(apiKeyUsageDaily, FALSE, me.apiKeyId, me.today,
                                  me.result[1])
    /\ UNCHANGED <<sdk, jobs, subscribers, calls, conn, sent, published, clock,
                   busCall>>

\* completeJob's transaction: the upsert of the daily aggregate, and the commit
CompleteJobTxCommit(w) ==
    /\ worker[w].pc = "cj_tx_upsert"
    /\ LET me == worker[w]
       IN  /\ usageEvents' = usageEvents \cup {me.txEvent[1]}
           /\ apiKeyUsageDaily' =
                  DailyAfter(apiKeyUsageDaily, TRUE, me.apiKeyId, me.today, me.result[1])
           /\ worker' = [worker EXCEPT ![w] =
                  [me EXCEPT !.pc = "cj_publish", !.txEvent = None, !.txDone = TRUE]]
    /\ UNCHANGED <<sdk, jobs, subscribers, calls, conn, sent, published, clock,
                   busCall>>

\* AfterTxAbort with the transaction's error caught and the function going on
AfterTxAbortCaught == "cj_publish"

\* where completeJob goes when its awaited transaction rejects: the rest of the
\* function is skipped
AfterTxAbort == "done"

\* completeJob's transaction: the upsert fails (storage unavailable); the
\* transaction is rolled back and its error is the call's
CompleteJobTxAbort(w) ==
    /\ worker[w].pc = "cj_tx_upsert"
    /\ worker' = [worker EXCEPT ![w] =
           [@ EXCEPT !.pc = AfterTxAbort, !.txEvent = None,
                     !.outcome = IF AfterTxAbort = "done" THEN "rejected"
                                 ELSE worker[w].outcome]]
    /\ UNCHANGED <<sdk, jobs, usageEvents, apiKeyUsageDaily, subscribers, calls, conn,
                   sent, published, clock,
                   busCall>>

\* completeJob: publishJobUpdate and return
CompleteJobPublish(w) ==
    /\ worker[w].pc = "cj_publish"
    /\ \E threw \in SUBSET MayThrow(worker[w].jobId) :
          /\ PublishJobUpdate(w, CompletedMessage(worker[w].jobId, worker[w].result[1]),
                              threw)
          /\ worker' = [worker EXCEPT ![w] =
                 [@ EXCEPT !.pc = "done",
                           !.outcome = AwaitPublish(PublishRejects(threw))]]
    /\ UNCHANGED <<sdk, jobs, usageEvents, apiKeyUsageDaily, subscribers, calls, conn, clock,
                   busCall>>

\* NextRetryCount with the stored count not read
NextRetryCountFromZero(jobId) == 0 + 1

\* (job?.retryCount ?? 0) + 1
NextRetryCount(jobId) ==
    (IF jobId \in DOMAIN jobs THEN jobs[jobId].retryCount ELSE 0) + 1

\* failJob, up to the end of its findFirst
FailJobRead(w, jobId, errorCode, errorMessage, shouldRetry) ==
    /\ FreeSlot(w)
    /\ calls' = calls + 1
    /\ worker' = [worker EXCEPT ![w] =
          [IdleWorker EXCEPT !.pc = "fj_write", !.op = "failJob",
                             !.call = calls + 1, !.jobId = jobId,
                             !.errorCode = errorCode, !.errorMessage = errorMessage,
                             !.shouldRetry = shouldRetry,
                             !.retryCount = NextRetryCount(jobId)]]
    /\ UNCHANGED <<sdk, jobs, usageEvents, apiKeyUsageDaily, subscribers, conn, sent,
                   published, clock,
                   busCall>>

\* .set({ errorCode, errorMessage, retryCount, status: "failed" })
FailedSet(row, errorCode, errorMessage, retryCount) ==
    [row EXCEPT !.errorCode = errorCode, !.errorMessage = errorMessage,
                !.retryCount = retryCount, !.status = "failed"]

\* AfterFailWrite without the `if (!shouldRetry)` test
AfterFailWriteAlwaysPublish(shouldRetry) ==
    "fj_publish"

\* where failJob goes after its UPDATE: if (!shouldRetry)
AfterFailWrite(shouldRetry) ==
    IF ~shouldRetry THEN "fj_publish" ELSE "done"

\* failJob: the UPDATE
FailJobWrite(w) ==
    /\ worker[w].pc = "fj_write"
    /\ LET me == worker[w]
       IN  /\ jobs' = UpdateJobs(me.jobId,
                  FailedSet(RowOf(me.jobId), me.errorCode, me.errorMessage,
                            me.retryCount))
           /\ worker' = [worker EXCEPT ![w] =
                  [me EXCEPT !.pc = AfterFailWrite(me.shouldRetry), !.written = TRUE,
                             !.seq = CommitsAfter(me.jobId),
                             !.outcome = IF AfterFailWrite(me.shouldRetry) = "done"
                                         THEN "resolved" ELSE @]]
    /\ UNCHANGED <<sdk, usageEvents, apiKeyUsageDaily, subscribers, calls, conn, sent,
                   published, clock,
                   busCall>>

\* failJob: publishJobUpdate and return
FailJobPublish(w) ==
    /\ worker[w].pc = "fj_publish"
    /\ \E threw \in SUBSET MayThrow(worker[w].jobId) :
          /\ PublishJobUpdate(w, ErrorMessage(worker[w].jobId, worker[w].errorMessage),
                              threw)
          /\ worker' = [worker EXCEPT ![w] =
                 [@ EXCEPT !.pc = "done",
                           !.outcome = AwaitPublish(PublishRejects(threw))]]
    /\ UNCHANGED <<sdk, jobs, usageEvents, apiKeyUsageDaily, subscribers, calls, conn, clock,
                   busCall>>

\* AfterFailedWrite with the UPDATE's error caught and the function going on
AfterFailedWriteCaught(publishPc) == publishPc

\* where a call goes when its awaited UPDATE rejects: the rest of the function
\* is skipped and the rejection is the call's
AfterFailedWrite(publishPc) == "done"

\* how a call stands after its UPDATE has rejected
FailedWrite(me, publishPc) ==
    [me EXCEPT !.pc = AfterFailedWrite(publishPc),
               !.outcome = IF AfterFailedWrite(publishPc) = "done"
                           THEN "rejected" ELSE @]

\* updateJobStatus: the UPDATE fails (storage unavailable)
UpdateJobStatusWriteFails(w, jobId, status, data) ==
    /\ FreeSlot(w)
    /\ calls' = calls + 1
    /\ worker' = [worker EXCEPT ![w] =
          FailedWrite([IdleWorker EXCEPT !.op = "updateJobStatus", !.call = calls + 1,
                                         !.jobId = jobId, !.status = status,
                                         !.data = data], "us_publish")]
    /\ UNCHANGED <<sdk, jobs, usageEvents, apiKeyUsageDaily, subscribers, conn, sent,
                   published, clock, busCall>>

\* completeJob: the UPDATE fails
CompleteJobWriteFails(w, jobId, result) ==
    /\ FreeSlot(w)
    /\ calls' = calls + 1
    /\ worker' = [worker EXCEPT ![w] =
          FailedWrite([IdleWorker EXCEPT !.op = "completeJob", !.call = calls + 1,
                                         !.jobId = jobId, !.result = Some(result),
                                         !.today = clock], "cj_publish")]
    /\ UNCHANGED <<sdk, jobs, usageEvents, apiKeyUsageDaily, subscribers, conn, sent,
                   published, clock, busCall>>

\* failJob: the UPDATE fails
FailJobWriteFails(w) ==
    /\ worker[w].pc = "fj_write"
    /\ worker' = [worker EXCEPT ![w] = FailedWrite(@, "fj_publish")]
    /\ UNCHANGED <<sdk, jobs, usageEvents, apiKeyUsageDaily, subscribers, calls, conn,
                   sent, published, clock, busCall>>

\* the fileInfo argument of updateJobFileInfo
FileInfos ==
    { [fileKey |-> "k1", fileName |-> "f1", fileSize |-> 1, mimeType |-> "m1"] }

\* FileInfoSet putting the job back to pending as well
FileInfoSetResetsStatus(row, fileInfo) ==
    [row EXCEPT !.fileKey = fileInfo.fileKey, !.fileName = fileInfo.fileName,
                !.fileSize = fileInfo.fileSize, !.mimeType = fileInfo.mimeType,
                !.status = "pending"]

\* .set({ fileKey, fileName, fileSize, mimeType })
FileInfoSet(row, fileInfo) ==
    [row EXCEPT !.fileKey = fileInfo.fileKey, !.fileName = fileInfo.fileName,
                !.fileSize = fileInfo.fileSize, !.mimeType = fileInfo.mimeType]

\* updateJobFileInfo: its UPDATE, and return
UpdateJobFileInfo(w, jobId, fileInfo) ==
    /\ FreeSlot(w)
    /\ calls' = calls + 1
    /\ jobs' = UpdateJobs(jobId, FileInfoSet(RowOf(jobId), fileInfo))
    /\ worker' = [worker EXCEPT ![w] =
          [IdleWorker EXCEPT !.pc = "done", !.op = "updateJobFileInfo",
                             !.call = calls + 1, !.jobId = jobId,
                             !.fileInfo = Some(fileInfo),
                             !.written = TRUE, !.seq = CommitsAfter(jobId),
                             !.outcome = "resolved"]]
    /\ UNCHANGED <<sdk, usageEvents, apiKeyUsageDaily, subscribers, conn, sent,
                   published, clock, busCall>>

\* midnight (UTC) passes
Tick ==
    /\ clock < MaxDay
    /\ clock' = clock + 1
    /\ UNCHANGED <<sdk, jobs, usageEvents, apiKeyUsageDaily, subscribers, worker, calls,
                   conn, sent, published,
                   busCall>>


\* ------------------------------------------------------------------ Real-Time Gateway
\* what the request's credentials resolve to: an API key or a session cookie of
\* an organization, or neither
Creds ==
    { [kind |-> k, organizationId |-> o] : k \in {"apikey", "session"},
                                           o \in Organizations }
    \cup { [kind |-> "none", organizationId |-> Null] }

\* ids a peer may name in /ws/jobs/:jobId
GatewayJobIds == {"job_a", MissingJobId}

UnauthorizedText == [ type |-> "error", error |-> "Unauthorized" ]
JobNotFoundText == [ type |-> "error", error |-> "Job not found" ]
SyntheticStatusText(jobId, status) ==
    [ type |-> "status", jobId |-> jobId, data |-> [ status |-> status ] ]

\* ws.close() called by a handler
WsClose(cn) ==
    IF cn.closed THEN cn ELSE [cn EXCEPT !.closed = TRUE, !.closedBy = "server"]

\* the socket opens and the open handler runs to its first await
Connect(c, jobId, cred) ==
    /\ conn[c].pc = "new"
    /\ \A d \in Conns : d < c => conn[d].pc # "new"
    /\ conn' = [conn EXCEPT ![c] = [@ EXCEPT !.pc = "auth", !.jobId = jobId,
                                             !.cred = Some(cred)]]
    /\ UNCHANGED <<sdk, jobs, usageEvents, apiKeyUsageDaily, subscribers, worker, calls,
                   sent, published, clock,
                   busCall>>

\* open: validateApiKey(...) has resolved
OpenValidateApiKey(c) ==
    /\ conn[c].pc = "auth"
    /\ LET cred == conn[c].cred[1]
       IN  conn' = [conn EXCEPT ![c] =
               IF cred.kind = "apikey"
               THEN [@ EXCEPT !.pc = "lookup", !.organizationId = cred.organizationId]
               ELSE [@ EXCEPT !.pc = "session"]]
    /\ UNCHANGED <<sdk, jobs, usageEvents, apiKeyUsageDaily, subscribers, worker, calls,
                   sent, published, clock,
                   busCall>>

\* open: auth.api.getSession(...) has resolved
OpenGetSession(c) ==
    /\ conn[c].pc = "session"
    /\ LET cred == conn[c].cred[1]
       IN  IF cred.kind = "session"
           THEN /\ conn' = [conn EXCEPT ![c] =
                       [@ EXCEPT !.pc = "lookup", !.organizationId = cred.organizationId]]
                /\ sent' = sent
           ELSE /\ sent' = [sent EXCEPT ![c] =
                       WsSend(c, @, Entry(UnauthorizedText, 0, 0, TRUE))]
                /\ conn' = [conn EXCEPT ![c] = [WsClose(@) EXCEPT !.pc = "finished"]]
    /\ UNCHANGED <<sdk, jobs, usageEvents, apiKeyUsageDaily, subscribers, worker, calls,
                   published, clock,
                   busCall>>

\* FindJob with the organization left out of the where clause
FindJobByIdOnly(jobId, organizationId) ==
    IF jobId \in DOMAIN jobs THEN Some(jobs[jobId]) ELSE None

\* db.query.jobs.findFirst({ where: and(eq(id, jobId), eq(organizationId, ...)) })
FindJob(jobId, organizationId) ==
    IF jobId \in DOMAIN jobs /\ jobs[jobId].organizationId = organizationId
    THEN Some(jobs[jobId])
    ELSE None

\* open: the database runs the job query
OpenFindJob(c) ==
    /\ conn[c].pc = "lookup"
    /\ conn' = [conn EXCEPT ![c] =
           [@ EXCEPT !.pc = "found",
                     !.job = FindJob(conn[c].jobId, conn[c].organizationId)]]
    /\ UNCHANGED <<sdk, jobs, usageEvents, apiKeyUsageDaily, subscribers, worker, calls,
                   sent, published, clock,
                   busCall>>

\* open: the query has resolved; the rest of the handler runs without an await
OpenSubscribe(c) ==
    /\ conn[c].pc = "found"
    /\ LET me == conn[c]
       IN  IF me.job = None
           THEN /\ sent' = [sent EXCEPT ![c] =
                       WsSend(c, @, Entry(JobNotFoundText, 0, 0, TRUE))]
                /\ conn' = [conn EXCEPT ![c] = [WsClose(me) EXCEPT !.pc = "finished"]]
                /\ subscribers' = subscribers
           ELSE /\ conn' = [conn EXCEPT ![c] =
                       [me EXCEPT !.pc = "finished",
                                  !.wsData = Some([jobId |-> me.jobId, callback |-> c])]]
                /\ subscribers' = SubscribeToJob(subscribers, me.jobId, c)
                /\ sent' = [sent EXCEPT ![c] =
                       WsSend(c, @, Entry(SyntheticStatusText(me.jobId, me.job[1].status),
                                          0, me.job[1].commits, TRUE))]
    /\ UNCHANGED <<sdk, jobs, usageEvents, apiKeyUsageDaily, worker, calls, published, clock,
                   busCall>>

\* the peer closes the socket, or the network drops it
PeerClose(c) ==
    /\ conn[c].pc # "new"
    /\ ~conn[c].closed
    /\ conn' = [conn EXCEPT ![c] = [@ EXCEPT !.closed = TRUE, !.closedBy = "peer"]]
    /\ UNCHANGED <<sdk, jobs, usageEvents, apiKeyUsageDaily, subscribers, worker, calls,
                   sent, published, clock,
                   busCall>>

\* AfterClose with the unsubscribe left out
AfterCloseKeeps(subs, wsData) == subs

\* the registry after the close handler: if (wsData) unsubscribeFromJob(...)
AfterClose(subs, wsData) ==
    IF wsData # None
    THEN UnsubscribeFromJob(subs, wsData[1].jobId, wsData[1].callback)
    ELSE subs

\* the close handler
Close(c) ==
    /\ conn[c].closed
    /\ ~conn[c].closeHandled
    /\ conn' = [conn EXCEPT ![c] =
           [@ EXCEPT !.closeHandled = TRUE, !.cleaned = (conn[c].wsData # None)]]
    /\ subscribers' = AfterClose(subscribers, conn[c].wsData)
    /\ UNCHANGED <<sdk, jobs, usageEvents, apiKeyUsageDaily, worker, calls, sent,
                   published, clock,
                   busCall>>

\* what the message handler may be given: a string (the text of a frame), or a
\* value that is not a string (a binary frame, an object)
PingText == "{\"type\":\"ping\"}"
Texts == { PingText, "{\"type\":\"status\"}", "{}", "5", "null", "{oops" }
PeerMessages ==
    { [kind |-> "string", text |-> t] : t \in Texts }
    \cup { [kind |-> "binary", text |-> Null],
           [kind |-> "object", text |-> PingText] }

\* JSON.parse(message): the value, or a SyntaxError
JsonParse(text) ==
    CASE text = PingText -> [ok |-> TRUE, kind |-> "object", type |-> Some("ping")]
      [] text = "{\"type\":\"status\"}" ->
             [ok |-> TRUE, kind |-> "object", type |-> Some("status")]
      [] text = "{}" -> [ok |-> TRUE, kind |-> "object", type |-> None]
      [] text = "5" -> [ok |-> TRUE, kind |-> "number", type |-> None]
      [] text = "null" -> [ok |-> TRUE, kind |-> "null", type |-> None]
      [] OTHER -> [ok |-> FALSE, kind |-> Null, type |-> None]

\* IsPing with the type of the parsed value not tested
IsPingUntyped(message) ==
    /\ message.kind = "string"
    /\ JsonParse(message.text).ok

\* the message handler's test: a string that parses to a value whose type is
\* "ping" (reading .type of null throws inside the try, like a SyntaxError)
IsPing(message) ==
    /\ message.kind = "string"
    /\ JsonParse(message.text).ok
    /\ JsonParse(message.text).kind # "null"
    /\ JsonParse(message.text).type = Some("ping")

PongText == [ type |-> "pong" ]

\* the message handler
Message(c, message) ==
    /\ conn[c].pc # "new"
    /\ ~conn[c].closed
    /\ conn[c].received < MaxMessages
    /\ conn' = [conn EXCEPT ![c] =
           [@ EXCEPT !.received = @ + 1, !.lastMessage = Some(message)]]
    /\ sent' = [sent EXCEPT ![c] =
           IF IsPing(message) THEN WsSend(c, @, Entry(PongText, 0, 0, TRUE)) ELSE @]
    /\ UNCHANGED <<sdk, jobs, usageEvents, apiKeyUsageDaily, subscribers, worker, calls,
                   published, clock,
                   busCall>>

\* ------------------------------------------------------------------ specifications
ErrorCodes == {"OCR_FAILED"}
ErrorMessages == {"ocr failed"}

\* ------------------------------------------------------------------ SDK client
\* the frame of the SDK's steps: the server is not touched
ServerUnchanged ==
    UNCHANGED <<jobs, usageEvents, apiKeyUsageDaily, subscribers, worker, calls,
                conn, sent, published, clock, busCall>>

\* setInterval(...): a new timer runs
SetInterval(timers, id) == timers \cup {id}

\* ClearInterval with the timer left running
ClearIntervalKeeps(timers, pingInterval) == timers

\* if (pingInterval) clearInterval(pingInterval)
ClearInterval(timers, pingInterval) ==
    IF pingInterval # None THEN timers \ {pingInterval[1]} ELSE timers

\* ws.close(): the closing handshake starts, or the connection attempt is
\* given up; nothing on a socket that is closing or closed
SdkWsClose(ws) == IF ws \in {"connecting", "open"} THEN "closing" ELSE ws

\* subscribeToJob(jobId, callbacks): the socket is created and the handlers
\* are registered
SdkSubscribeToJob(s) ==
    /\ sdk[s].ws = "none"
    /\ sdk' = [sdk EXCEPT ![s] = [@ EXCEPT !.ws = "connecting"]]
    /\ ServerUnchanged

\* ws.on("open"): fired once, when the connection is made (never on a socket
\* whose close() was called while it was connecting)
SdkOpen(s) ==
    /\ sdk[s].ws = "connecting"
    /\ sdk' = [sdk EXCEPT ![s] =
           [@ EXCEPT !.ws = "open",
                     !.intervals = sdk[s].intervals + 1,
                     !.pingInterval = Some(sdk[s].intervals + 1),
                     !.timers = SetInterval(sdk[s].timers, sdk[s].intervals + 1)]]
    /\ ServerUnchanged

\* a timer fires: ws.send({ type: "ping" })
SdkPing(s) ==
    /\ sdk[s].timers # {}
    /\ sdk[s].pings < MaxPings
    /\ sdk' = [sdk EXCEPT ![s] = [@ EXCEPT !.pings = sdk[s].pings + 1]]
    /\ ServerUnchanged

\* ws.on("close"): fired once, when the connection is closed or could not be
\* made
SdkClose(s) ==
    /\ sdk[s].ws \in {"connecting", "open", "closing"}
    /\ sdk' = [sdk EXCEPT ![s] =
           [@ EXCEPT !.ws = "closed",
                     !.timers = ClearInterval(sdk[s].timers, sdk[s].pingInterval),
                     !.pingInterval = None]]
    /\ ServerUnchanged

\* the function subscribeToJob returned is called
SdkUnsubscribe(s) ==
    /\ sdk[s].ws # "none"
    /\ sdk' = [sdk EXCEPT ![s] =
           [@ EXCEPT !.ws = SdkWsClose(sdk[s].ws),
                     !.timers = ClearInterval(sdk[s].timers, sdk[s].pingInterval),
                     !.pingInterval = None,
                     !.unsubscribed = TRUE]]
    /\ ServerUnchanged

\* the calls a worker may start, by operation and argument set
UpdateCalls(J, S, D) ==
    \E w \in Workers, j \in J, st \in S, d \in D : UpdateJobStatusWrite(w, j, st, d)

CompleteCalls(J, R) ==
    \E w \in Workers, j \in J, r \in R : CompleteJobWrite(w, j, r)

FailCalls(J, SR) ==
    \E w \in Workers, j \in J, ec \in ErrorCodes, em \in ErrorMessages, sr \in SR :
        FailJobRead(w, j, ec, em, sr)

FileInfoCalls(J) ==
    \E w \in Workers, j \in J, fi \in FileInfos : UpdateJobFileInfo(w, j, fi)

\* the steps after a call's first
UpdateProgress == \E w \in Workers : UpdateJobStatusPublish(w)

CompleteProgress ==
    \/ \E w \in Workers : CompleteJobTxInsert(w)
    \/ \E w \in Workers : CompleteJobTxCommit(w)
    \/ \E w \in Workers : CompleteJobPublish(w)

FailProgress ==
    \/ \E w \in Workers : FailJobWrite(w)
    \/ \E w \in Workers : FailJobPublish(w)

\* the UPDATE of a call failing
WriteFaults(J, S, D, R) ==
    \/ \E w \in Workers, j \in J, st \in S, d \in D :
           UpdateJobStatusWriteFails(w, j, st, d)
    \/ \E w \in Workers, j \in J, r \in R : CompleteJobWriteFails(w, j, r)
    \/ \E w \in Workers : FailJobWriteFails(w)

\* a durable write of the usage transaction failing
CompleteFaults == \E w \in Workers : CompleteJobTxAbort(w)

Returns == \E w \in Workers : Return(w)

StoreStep ==
    \/ UpdateCalls(AllJobIds, JobStatus, UpdateDatas)
    \/ UpdateProgress
    \/ CompleteCalls(AllJobIds, Results)
    \/ CompleteProgress
    \/ CompleteFaults
    \/ FailCalls(AllJobIds, BOOLEAN)
    \/ FailProgress
    \/ FileInfoCalls(AllJobIds)
    \/ WriteFaults(AllJobIds, JobStatus, UpdateDatas, Results)
    \/ Returns
    \/ Tick

\* the connections peers may open, by requested id and credentials
Connects(Cs, J, C) ==
    \E c \in Cs, j \in J, cr \in C : Connect(c, j, cr)

OpenProgress ==
    \/ \E c \in Conns : OpenValidateApiKey(c)
    \/ \E c \in Conns : OpenFindJob(c)
    \/ \E c \in Conns : OpenSubscribe(c)

SessionProgress == \E c \in Conns : OpenGetSession(c)

CloseProgress ==
    \/ \E c \in Conns : PeerClose(c)
    \/ \E c \in Conns : Close(c)

GatewayProgress ==
    \/ OpenProgress
    \/ SessionProgress
    \/ CloseProgress

GatewayStep ==
    \/ Connects(Conns, GatewayJobIds, Creds)
    \/ GatewayProgress

Messages == \E c \in Conns, m \in PeerMessages : Message(c, m)

\* the registry used directly, with any job identifier and callback
BusStep ==
    \/ \E j \in AllJobIds, c \in Conns : BusSubscribe(j, c)
    \/ \E j \in AllJobIds, c \in Conns : BusUnsubscribe(j, c)

\* the SDK client: subscriptions opened, pinging, closed and unsubscribed
SdkStep ==
    \/ \E s \in Subscriptions : SdkSubscribeToJob(s)
    \/ \E s \in Subscriptions : SdkOpen(s)
    \/ \E s \in Subscriptions : SdkPing(s)
    \/ \E s \in Subscriptions : SdkClose(s)
    \/ \E s \in Subscriptions : SdkUnsubscribe(s)

Next == StoreStep \/ GatewayStep \/ Messages \/ BusStep \/ SdkStep

Spec == Init /\ [][Next]_vars

SpecSdk == Init /\ [][SdkStep]_vars

SpecBus == Init /\ [][BusStep]_vars

\* the usage ledger: completeJob calls on two jobs of one API key, overlapping,
\* across midnight
LedgerJobIds == {"job_a", "job_b"}
LedgerResults == {ParseResult(0), ExtractResult(MaxPages)}

LedgerStep ==
    \/ CompleteCalls(LedgerJobIds, LedgerResults)
    \/ CompleteProgress
    \/ Returns
    \/ Tick

SpecLedger == Init /\ [][LedgerStep]_vars

\* the usage ledger with transactions that fail part-way
LedgerAbortStep ==
    \/ LedgerStep
    \/ CompleteFaults

SpecLedgerAbort == Init /\ [][LedgerAbortStep]_vars

\* the Job Store alone: the three operations, overlapping, on a job with an API
\* key, a job without one and an id without a row
StoreJobIds == {"job_a", "job_c", MissingJobId}
StoreStatuses == {"processing", "extracting"}
StoreResults == {ParseResult(0), ExtractResult(1)}
StoreDatas == { None, Some([processingTimeMs |-> "t1"]) }

JobStoreStep ==
    \/ UpdateCalls(StoreJobIds, StoreStatuses, StoreDatas)
    \/ UpdateProgress
    \/ CompleteCalls(StoreJobIds, StoreResults)
    \/ CompleteProgress
    \/ FailCalls(StoreJobIds, BOOLEAN)
    \/ FailProgress
    \/ Returns

SpecStore == Init /\ [][JobStoreStep]_vars


\* the gateway alone: every kind of peer, closing at any time
SpecGateway == Init /\ [][GatewayStep]_vars

\* a peer of organization A attaches to job_a while a worker reports on it
MemberCreds == { cr \in Creds : cr.organizationId = "org_A" }

AttachStep ==
    \/ Connects({1}, {"job_a"}, MemberCreds)
    \/ GatewayProgress
    \/ UpdateCalls({"job_a"}, StoreStatuses, {None})
    \/ UpdateProgress
    \/ FailCalls({"job_a"}, BOOLEAN)
    \/ FailProgress
    \/ Returns

SpecAttach == Init /\ [][AttachStep]_vars

\* the scheduling section 5 of the specification assumes: the worker issues the
\* calls on one job one after another (calls on different jobs overlap), while
\* two peers of organization A watch job_a
NoCallInFlight(jobId) ==
    \A w \in Workers : worker[w].pc # "idle" => worker[w].jobId # jobId

SequentialStep ==
    \/ Connects({1, 2}, {"job_a"}, {[kind |-> "apikey", organizationId |-> "org_A"]})
    \/ OpenProgress
    \/ NoCallInFlight("job_a") /\ UpdateCalls({"job_a"}, StoreStatuses, {None})
    \/ NoCallInFlight("job_c") /\ UpdateCalls({"job_c"}, {"processing"}, {None})
    \/ UpdateProgress
    \/ NoCallInFlight("job_a") /\ CompleteCalls({"job_a"}, {ParseResult(1)})
    \/ CompleteProgress
    \/ NoCallInFlight("job_a") /\ FailCalls({"job_a"}, BOOLEAN)
    \/ FailProgress
    \/ Returns

SpecSequential == Init /\ [][SequentialStep]_vars

\* a peer of organization A watches job_a and closes at any time, while the
\* worker issues its calls on job_a one after another
Watchers == { [kind |-> "apikey", organizationId |-> "org_A"] }

FaultStep ==
    \/ Connects({1}, {"job_a"}, Watchers)
    \/ OpenProgress
    \/ CloseProgress
    \/ NoCallInFlight("job_a") /\ UpdateCalls({"job_a"}, {"processing"}, {None})
    \/ UpdateProgress
    \/ NoCallInFlight("job_a") /\ CompleteCalls({"job_a"}, {ParseResult(1)})
    \/ CompleteProgress
    \/ NoCallInFlight("job_a") /\ FailCalls({"job_a"}, {FALSE})
    \/ FailProgress
    \/ Returns

SpecFault == Init /\ [][FaultStep]_vars

\* two peers of organization A watch job_a and close at any time, while the
\* worker reports the status of job_a, one call after another
FanoutStep ==
    \/ Connects({1, 2}, {"job_a"}, Watchers)
    \/ OpenProgress
    \/ CloseProgress
    \/ NoCallInFlight("job_a") /\ UpdateCalls({"job_a"}, {"processing"}, {None})
    \/ UpdateProgress
    \/ Returns

SpecFanout == Init /\ [][FanoutStep]_vars

\* a peer with or without credentials talks on its connection while the open
\* handler runs and after it, and closes at any time
TalkerCreds == { cr \in Creds : cr.organizationId # "org_B" }

MessageStep ==
    \/ Connects({1}, {"job_a"}, TalkerCreds)
    \/ GatewayProgress
    \/ Messages

SpecMessage == Init /\ [][MessageStep]_vars

\* a peer with any credentials asks for job_a or for an id without a row, and
\* closes at any time, while the worker reports on job_a
AdmissionStep ==
    \/ Connects({1}, GatewayJobIds, Creds)
    \/ GatewayProgress
    \/ NoCallInFlight("job_a") /\ UpdateCalls({"job_a"}, {"processing"}, {None})
    \/ UpdateProgress
    \/ Returns

SpecAdmission == Init /\ [][AdmissionStep]_vars

\* two peers of organization A watch job_a or job_b, each its own or both the
\* same, while the worker reports on both jobs, the calls on one job one after
\* another
IsolationStep ==
    \/ Connects({1, 2}, {"job_a", "job_b"}, Watchers)
    \/ OpenProgress
    \/ NoCallInFlight("job_a") /\ UpdateCalls({"job_a"}, {"processing"}, {None})
    \/ NoCallInFlight("job_b") /\ UpdateCalls({"job_b"}, {"extracting"}, {None})
    \/ UpdateProgress
    \/ NoCallInFlight("job_b") /\ FailCalls({"job_b"}, {FALSE})
    \/ FailProgress
    \/ Returns

SpecIsolation == Init /\ [][IsolationStep]_vars

\* updateJobStatus alone: an initial, an in-progress and a terminal status and
\* every kind of data, on a job and on an id without a row, overlapping
ReportedStatuses == {"pending", "processing", "completed"}

StatusStep ==
    \/ UpdateCalls({"job_a", MissingJobId}, ReportedStatuses, UpdateDatas)
    \/ UpdateProgress
    \/ Returns

SpecStatus == Init /\ [][StatusStep]_vars

\* file metadata written at any moment of the life of a job with an API key, a
\* job without one and an id without a row
FileInfoStep ==
    \/ FileInfoCalls(StoreJobIds)
    \/ CompleteCalls({"job_a"}, {ExtractResult(1)})
    \/ CompleteProgress
    \/ FailCalls({"job_a"}, {FALSE})
    \/ FailProgress
    \/ Returns

SpecFileInfo == Init /\ [][FileInfoStep]_vars

\* the three operations on job_a, overlapping, each UPDATE succeeding or failing
WriteFaultStep ==
    \/ UpdateCalls({"job_a"}, {"processing"}, {None})
    \/ UpdateProgress
    \/ CompleteCalls({"job_a"}, {ParseResult(1)})
    \/ CompleteProgress
    \/ FailCalls({"job_a"}, BOOLEAN)
    \/ FailProgress
    \/ WriteFaults({"job_a"}, {"processing"}, {None}, {ParseResult(1)})
    \/ Returns

SpecWriteFault == Init /\ [][WriteFaultStep]_vars

\* the life of one job: the three operations on job_a, overlapping, with every
\* kind of data
LifecycleStep ==
    \/ UpdateCalls({"job_a"}, StoreStatuses, UpdateDatas)
    \/ UpdateProgress
    \/ CompleteCalls({"job_a"}, {ExtractResult(1)})
    \/ CompleteProgress
    \/ FailCalls({"job_a"}, BOOLEAN)
    \/ FailProgress
    \/ Returns

SpecLifecycle == Init /\ [][LifecycleStep]_vars

\* ------------------------------------------------------------------ helpers of the claims
RECURSIVE SumField(_, _)
SumField(rows, f) ==
    IF rows = {} THEN 0
    ELSE LET r == CHOOSE x \in rows : TRUE
         IN  r[f] + SumField(rows \ {r}, f)

EventsOfJob(jobId) == { e \in usageEvents : e.jobId = jobId }

\* the messages of one type published for a job
PublishedOfType(jobId, type) ==
    SelectSeq(published[jobId], LAMBDA e : e.text.type = type)

NoLedgerTransaction == \A w \in Workers : worker[w].pc # "cj_tx_upsert"

\* ------------------------------------------------------------------ claims
\* C1: for every job with an owning API key there is never more than one Usage
\* Event row, and once a completeJob call for it has succeeded (one or several,
\* one after another or overlapping) there is exactly one.
C1_ExactlyOneUsageEvent ==
    \A j \in JobIds :
        jobs[j].apiKeyId # Null =>
            /\ Cardinality(EventsOfJob(j)) <= 1
            /\ Len(PublishedOfType(j, "completed")) >= 1
                   => Cardinality(EventsOfJob(j)) = 1

\* two completeJob calls for job_a have succeeded, the second having overlapped
\* the first
C1_Witness ==
    /\ Len(PublishedOfType("job_a", "completed")) >= 2
    /\ Cardinality(EventsOfJob("job_a")) = 1
    /\ \E w \in Workers : worker[w].pc = "done" /\ worker[w].jobId = "job_a"
                          /\ worker[w].call = 1

\* C2: a step changes the Daily Usage Aggregate if and only if it adds a Usage
\* Event; the transaction of a repeated completeJob call adds no event and so
\* leaves pages, jobsCount, promptTokens and completionTokens as they were.
C2_AggregateIffNewEvent ==
    [][ /\ (apiKeyUsageDaily' # apiKeyUsageDaily) <=> (usageEvents' # usageEvents)
        /\ \A w \in Workers :
              (worker[w].pc = "cj_tx_insert" /\ worker'[w].pc = "cj_publish")
                  => apiKeyUsageDaily' = apiKeyUsageDaily ]_vars

\* the spec's scenario: job_a completed twice with 1 page; the aggregate counts
\* one job and one page
C2_Witness ==
    /\ Len(PublishedOfType("job_a", "completed")) = 2
    /\ \A i \in 1..2 : published["job_a"][i].text.data.markdownResult = "md1"
    /\ \E r \in apiKeyUsageDaily : r.apiKeyId = "ak_1" /\ r.jobsCount = 1 /\ r.pages = 1

\* C3: whenever no ledger transaction is in progress, for every (apiKeyId, day)
\* there is at most one aggregate row, and its pages, jobsCount, promptTokens and
\* completionTokens are the sums (and the count) over the Usage Events of that
\* key created on that day (no row: no such event).
C3_AggregateEqualsEvents ==
    NoLedgerTransaction =>
        \A k \in ApiKeyIds, d \in Days :
            LET rows == { r \in apiKeyUsageDaily : r.apiKeyId = k /\ r.day = d }
                evs == { e \in usageEvents : e.apiKeyId = k /\ e.createdAt = d }
            IN  /\ Cardinality(rows) <= 1
                /\ rows = {} => evs = {}
                /\ \A r \in rows :
                      /\ r.jobsCount = Cardinality(evs)
                      /\ r.pages = SumField(evs, "pages")
                      /\ r.promptTokens = SumField(evs, "promptTokens")
                      /\ r.completionTokens = SumField(evs, "completionTokens")


\* the entries a call has published
PublishedBy(jobId, call, type) ==
    SelectSeq(published[jobId], LAMBDA e : e.call = call /\ e.text.type = type)

\* C4: a failJob call with shouldRetry = true publishes no `error` notification;
\* one with shouldRetry = false has published none before its UPDATE has
\* committed and exactly one when it returns.
C4_FailJobErrorNotification ==
    \A w \in Workers :
        worker[w].op = "failJob" =>
            LET n == Len(PublishedBy(worker[w].jobId, worker[w].call, "error"))
            IN  /\ worker[w].shouldRetry => n = 0
                /\ ~worker[w].written => n = 0
                /\ (~worker[w].shouldRetry /\ worker[w].pc = "done") => n = 1
                /\ n <= 1

\* a failJob call with shouldRetry = false and one with shouldRetry = true have
\* both run to their end on job_a
C4_Witness ==
    /\ \E w \in Workers :
           /\ worker[w].op = "failJob" /\ worker[w].pc = "done"
           /\ worker[w].shouldRetry /\ worker[w].jobId = "job_a"
    /\ Len(PublishedOfType("job_a", "error")) = 1
    /\ jobs["job_a"].retryCount = 2

\* C9: every notification handed to the bus reports a write that has committed:
\* the publishing call's UPDATE is done (it is one of the row's committed
\* writes), and for completeJob on a job with an API key the usage transaction
\* has committed too.
C9_PublishAfterCommit ==
    \A j \in AllJobIds : \A i \in 1..Len(published[j]) :
        LET e == published[j][i]
        IN  /\ e.committed
            /\ j \in DOMAIN jobs => (1 <= e.seq /\ e.seq <= jobs[j].commits)
            /\ (e.text.type = "completed" /\ j \in DOMAIN jobs /\ jobs[j].apiKeyId # Null)
                   => EventsOfJob(j) # {}

\* a completed notification of job_a (which has an API key) and a status
\* notification have been published
C9_Witness ==
    /\ Len(PublishedOfType("job_a", "completed")) = 1
    /\ \E j \in AllJobIds : Len(PublishedOfType(j, "status")) = 1


AllWorkersIdle == \A w \in Workers : worker[w].pc = "idle"

Subscribed(c) == \E j \in AllJobIds : c \in subscribers[j]

\* C5: once the close handler and the open handler of a connection have both
\* finished, the bus holds no subscription for that connection's callback.
C5_NoSubscriptionAfterClose ==
    \A c \in Conns :
        (conn[c].closeHandled /\ conn[c].pc = "finished") => ~Subscribed(c)

\* C6: a bus subscription is held only for the job the connection named, and
\* only when that job's organization is the one the caller's credentials resolve
\* to; a caller of another organization has been sent `Job not found` and
\* nothing else, is closed, and holds no subscription data.
C6_SubscriptionOnlyWithinOrganization ==
    /\ \A j \in AllJobIds : \A c \in subscribers[j] :
          /\ conn[c].jobId = j
          /\ j \in DOMAIN jobs
          /\ jobs[j].organizationId = conn[c].cred[1].organizationId
    /\ \A c \in Conns :
          ( /\ conn[c].pc = "finished"
            /\ conn[c].cred[1].kind # "none"
            /\ conn[c].jobId \in DOMAIN jobs
            /\ jobs[conn[c].jobId].organizationId # conn[c].cred[1].organizationId )
          => /\ ~Subscribed(c)
             /\ conn[c].wsData = None
             /\ conn[c].closed
             /\ sent[c] = IF conn[c].closedBy = "server"
                          THEN <<Entry(JobNotFoundText, 0, 0, TRUE)>>
                          ELSE <<>>

\* a session of organization B asked for job_a (organization A) and was turned
\* away, while a caller of organization A holds a subscription for job_a
C6_Witness ==
    \E c, d \in Conns :
        /\ conn[c].pc = "finished" /\ conn[c].jobId = "job_a"
        /\ conn[c].cred = Some([kind |-> "session", organizationId |-> "org_B"])
        /\ conn[c].closedBy = "server"
        /\ sent[c] = <<Entry(JobNotFoundText, 0, 0, TRUE)>>
        /\ d \in subscribers["job_a"]

\* C7: two connections opened with the same credentials, one for an id without
\* a row and one for a job of another organization, have been treated alike
\* once their open handlers are done: the same messages, the same close, and
\* the same (empty) subscription state.
C7_MissingAndForeignJobAlike ==
    \A c, d \in Conns :
        ( /\ conn[c].pc = "finished" /\ conn[d].pc = "finished"
          /\ conn[c].cred = conn[d].cred
          /\ conn[c].cred[1].kind # "none"
          /\ conn[c].closedBy = conn[d].closedBy
          /\ conn[c].jobId \notin DOMAIN jobs
          /\ conn[d].jobId \in DOMAIN jobs
          /\ jobs[conn[d].jobId].organizationId # conn[d].cred[1].organizationId )
        => /\ sent[c] = sent[d]
           /\ conn[c].closed = conn[d].closed
           /\ conn[c].wsData = conn[d].wsData
           /\ Subscribed(c) = Subscribed(d)
           /\ ~Subscribed(d)

\* an API key of organization B asked once for job_x (no row) and once for
\* job_a (organization A); both got `Job not found` and the server's close
C7_Witness ==
    \E c, d \in Conns :
        /\ conn[c].pc = "finished" /\ conn[d].pc = "finished"
        /\ conn[c].cred = Some([kind |-> "apikey", organizationId |-> "org_B"])
        /\ conn[d].cred = conn[c].cred
        /\ conn[c].jobId = MissingJobId /\ conn[d].jobId = "job_a"
        /\ conn[c].closedBy = "server" /\ conn[d].closedBy = "server"
        /\ sent[c] = <<Entry(JobNotFoundText, 0, 0, TRUE)>>
        /\ conn[c].closeHandled /\ conn[d].closeHandled

\* C8: when the open handler of a live connection finishes while no Job Store
\* call is in flight, the status it has just sent is the job's persisted status.
C8_AttachLearnsLatestStatus ==
    [][ \A c \in Conns :
          ( /\ conn[c].pc = "found" /\ conn'[c].pc = "finished"
            /\ conn'[c].wsData # None
            /\ ~conn[c].closed
            /\ AllWorkersIdle )
          => sent'[c][Len(sent'[c])].text.data.status = jobs'[conn[c].jobId].status
      ]_vars

\* the notifications among a sequence of entries
FromBus(q) == SelectSeq(q, LAMBDA e : e.call # 0)

\* the entries report writes in commit order
InCommitOrder(q) ==
    \A i, k \in 1..Len(q) : i < k => q[i].seq < q[k].seq

WrittenStatus(w) ==
    CASE worker[w].op = "updateJobStatus" -> worker[w].status
      [] worker[w].op = "completeJob" -> "completed"
      [] OTHER -> "failed"

\* the publication a call has made (none: the empty sequence)
PublicationsOf(w) ==
    SelectSeq(published[worker[w].jobId], LAMBDA e : e.call = worker[w].call)

Added(jobId) == published'[jobId][Len(published'[jobId])]

Publishes(jobId) == Len(published'[jobId]) = Len(published[jobId]) + 1

\* connection c is handed exactly the added publication of a job
ReceivesOnce(c, jobId) ==
    /\ Len(sent'[c]) = Len(sent[c]) + 1
    /\ SubSeq(sent'[c], 1, Len(sent[c])) = sent[c]
    /\ sent'[c][Len(sent'[c])] =
           Entry(Stringify(Added(jobId).text), Added(jobId).call, Added(jobId).seq,
                 Added(jobId).committed)

\* C12: in a publish, every subscribed callback other than those that throw is
\* called, and the peer of each open one among them is handed the message
\* exactly once, whichever callbacks throw.
C12_FaultIsolatedPerSubscriber ==
    [][ \A j \in JobIds :
          Publishes(j) =>
              \A c \in subscribers[j] \ Added(j).threw :
                  /\ c \in Added(j).to
                  /\ ~conn[c].closed => ReceivesOnce(c, j) ]_vars

\* the callback of connection 1 threw during a publish for job_a, and the peer
\* of connection 2 was handed that message
C12_Witness ==
    \E i \in 1..Len(published["job_a"]) :
        /\ published["job_a"][i].threw = {1}
        /\ 2 \in published["job_a"][i].to
        /\ \E k \in 1..Len(sent[2]) : sent[2][k].call = published["job_a"][i].call

\* C20: a publish calls every callback that has been subscribed for the job by
\* an open handler and not unsubscribed by a close handler, hands the peer of
\* each open one the message exactly once, and calls no other callback: none
\* that was unsubscribed, none of another job, none never subscribed.
C20_PublishToCurrentSubscribers ==
    [][ \A j \in JobIds :
          Publishes(j) =>
              \A c \in Conns :
                  IF conn[c].wsData # None /\ conn[c].jobId = j /\ ~conn[c].cleaned
                  THEN /\ c \in Added(j).to
                       /\ (~conn[c].closed /\ c \notin Added(j).threw)
                              => ReceivesOnce(c, j)
                  ELSE /\ c \notin Added(j).to
                       /\ sent'[c] = sent[c] ]_vars

\* a first message for job_a went to both watchers; connection 1 then closed and
\* was unsubscribed, and a second message went to connection 2 alone
C20_Witness ==
    /\ conn[1].cleaned
    /\ Len(published["job_a"]) = 2
    /\ published["job_a"][1].to = {1, 2}
    /\ published["job_a"][2].to = {2}
    /\ Len(FromBus(sent[1])) = 1
    /\ Len(FromBus(sent[2])) = 2

\* the order of the state machine pending -> processing -> (extracting) ->
\* completed | failed
Rank(status) ==
    CASE status = "pending" -> 0
      [] status = "processing" -> 1
      [] status = "extracting" -> 2
      [] OTHER -> 3

\* completed, or failed by a failJob call without retry (its error notification
\* reports the row's latest write)
Terminal(jobId) ==
    \/ jobs[jobId].status = "completed"
    \/ /\ jobs[jobId].status = "failed"
       /\ \E i \in 1..Len(published[jobId]) :
              /\ published[jobId][i].text.type = "error"
              /\ published[jobId][i].seq = jobs[jobId].commits

\* C13: no step of updateJobStatus, completeJob or failJob takes a job that
\* is in a terminal state back to an earlier state of the state machine.
C13_TerminalNeverRegresses ==
    [][ \A j \in JobIds :
          Terminal(j) => Rank(jobs'[j].status) >= Rank(jobs[j].status) ]_vars

\* C14: a step that changes completedAt or a result of a row leaves the row
\* completed, and a step that changes errorCode or errorMessage leaves it failed.
C14_FieldsOnlyWithTheirStatus ==
    [][ \A j \in JobIds :
          /\ ( \/ jobs'[j].completedAt # jobs[j].completedAt
               \/ jobs'[j].markdownResult # jobs[j].markdownResult
               \/ jobs'[j].jsonResult # jobs[j].jsonResult )
                 => jobs'[j].status = "completed"
          /\ ( \/ jobs'[j].errorCode # jobs[j].errorCode
               \/ jobs'[j].errorMessage # jobs[j].errorMessage )
                 => jobs'[j].status = "failed" ]_vars

\* a failJob call writes the row of a job in this step
FailJobWrites(jobId) ==
    \E w \in Workers :
        /\ worker[w].pc = "fj_write" /\ worker'[w].pc # "fj_write"
        /\ worker[w].jobId = jobId

\* C15: with the calls on a job issued one after another, the UPDATE of every
\* failJob call, with shouldRetry true or false, leaves the job's retry count
\* one higher than it was, and no other step changes it: k calls take a count
\* c to c + k.
C15_FailJobIncrementsRetryCount ==
    [][ \A j \in JobIds :
          jobs'[j].retryCount =
              jobs[j].retryCount + (IF FailJobWrites(j) THEN 1 ELSE 0) ]_vars

\* two failJob calls on job_a have returned, one with shouldRetry = true and
\* one with shouldRetry = false: the count went from 0 to 2
C15_Witness ==
    /\ AllWorkersIdle
    /\ calls = 2
    /\ jobs["job_a"].retryCount = 2
    /\ Len(published["job_a"]) = 1
    /\ published["job_a"][1].text.type = "error"

\* C16: in every durable state, a job with an API key that completeJob has made
\* completed has its Usage Event.
C16_CompletedWithUsageEvent ==
    \A j \in JobIds :
        (jobs[j].apiKeyId # Null /\ jobs[j].status = "completed")
            => EventsOfJob(j) # {}

\* C17: in every durable state the Daily Usage Aggregates hold exactly the
\* increments of the Usage Events that exist: as many jobs as there are events,
\* and their pages and tokens; an event without its increment or an increment
\* without its event is never visible, also after a transaction has failed
\* between the INSERT and the upsert.
C17_EventAndAggregateTogether ==
    /\ SumField(apiKeyUsageDaily, "jobsCount") = Cardinality(usageEvents)
    /\ SumField(apiKeyUsageDaily, "pages") = SumField(usageEvents, "pages")
    /\ SumField(apiKeyUsageDaily, "promptTokens") = SumField(usageEvents, "promptTokens")
    /\ SumField(apiKeyUsageDaily, "completionTokens")
           = SumField(usageEvents, "completionTokens")

\* the transaction of one completeJob call has failed after its INSERT, and that
\* of another call has committed an event and its increment
C17_Witness ==
    /\ \E w \in Workers :
           /\ worker[w].op = "completeJob" /\ worker[w].pc = "done"
           /\ worker[w].outcome = "rejected"
           /\ EventsOfJob(worker[w].jobId) = {}
    /\ Cardinality(usageEvents) = 1
    /\ \E r \in apiKeyUsageDaily : r.jobsCount = 1

\* the job a call works on has no owning API key (or no row)
Keyless(jobId) == jobId \notin DOMAIN jobs \/ jobs[jobId].apiKeyId = Null

\* a step of a completeJob call on a job without API key
KeylessCompleteStep ==
    \E w \in Workers :
        /\ worker'[w] # worker[w]
        /\ \/ worker[w].op = "completeJob" /\ Keyless(worker[w].jobId)
           \/ worker'[w].op = "completeJob" /\ Keyless(worker'[w].jobId)

\* C18: every Usage Event is of a job that has an owning API key (the event's)
\* and that completeJob has written; a step of a completeJob call on a job
\* without API key changes neither the Usage Events nor the Daily Usage
\* Aggregates; and no step of the Job Store changes or removes an event.
C18_UsageEventLifecycle ==
    [][ /\ usageEvents \subseteq usageEvents'
        /\ \A e \in usageEvents' :
              /\ e.jobId \in DOMAIN jobs'
              /\ e.apiKeyId # Null
              /\ jobs'[e.jobId].apiKeyId = e.apiKeyId
              /\ jobs'[e.jobId].completedAt # None
        /\ KeylessCompleteStep =>
              (usageEvents' = usageEvents /\ apiKeyUsageDaily' = apiKeyUsageDaily)
      ]_vars

\* job_c (no API key) and job_a (API key ak_1) have both been completed: the
\* only event and the only aggregate are those of job_a
C18_Witness ==
    /\ AllWorkersIdle
    /\ jobs["job_c"].status = "completed" /\ jobs["job_a"].status = "completed"
    /\ Len(PublishedOfType("job_c", "completed")) = 1
    /\ EventsOfJob("job_c") = {}
    /\ Cardinality(usageEvents) = 1 /\ Cardinality(EventsOfJob("job_a")) = 1
    /\ Cardinality(apiKeyUsageDaily) = 1

\* the message handler of connection c runs in this step
Handles(c) == conn'[c].received = conn[c].received + 1

\* C19: the message handler answers the text of a ping with one pong and any
\* other message (broken JSON, another type, no type, JSON that is no object, a
\* value that is no string) with nothing; it never closes the connection and
\* leaves its subscription as it is. The server closes a connection only when it
\* refuses it.
C19_PingPongOthersIgnored ==
    [][ \A c \in Conns :
          /\ Handles(c) =>
                /\ sent'[c] =
                       IF conn'[c].lastMessage = Some([kind |-> "string", text |-> PingText])
                       THEN Append(sent[c], Entry(PongText, 0, 0, TRUE))
                       ELSE sent[c]
                /\ conn'[c].closed = conn[c].closed
                /\ conn'[c].wsData = conn[c].wsData
                /\ conn'[c].pc = conn[c].pc
                /\ subscribers' = subscribers
          /\ conn'[c].closedBy = "server" => conn'[c].wsData = None ]_vars

\* a subscribed peer has sent a ping and then a message of another type: it has
\* got the first status and one pong, and is still open and subscribed
C19_Witness ==
    /\ conn[1].received = 2
    /\ conn[1].lastMessage = Some([kind |-> "string", text |-> "{\"type\":\"status\"}"])
    /\ Len(sent[1]) = 2
    /\ sent[1][2].text = PongText
    /\ ~conn[1].closed
    /\ 1 \in subscribers["job_a"]

\* C21: an unsubscribe for a callback that is not subscribed to the job raises no
\* error and leaves the whole registry as it was.
C21_UnsubscribeNonMemberNoOp ==
    [][ ( /\ busCall' # busCall
          /\ busCall'[1].op = "unsubscribe"
          /\ ~busCall'[1].member )
        => /\ subscribers' = subscribers
           /\ ~busCall'[1].raised ]_vars

\* callback 2 has just been unsubscribed from job_a, to which it was not
\* subscribed, while callback 1 is subscribed to job_a and callback 2 to job_b
C21_Witness ==
    /\ busCall = Some([op |-> "unsubscribe", jobId |-> "job_a", callback |-> 2,
                       member |-> FALSE, raised |-> FALSE])
    /\ subscribers["job_a"] = {1}
    /\ subscribers["job_b"] = {2}

\* the fields a call's data gives
Given(data) == IF data = None THEN {} ELSE DOMAIN data[1]

FileFields == {"fileKey", "fileName", "fileSize", "mimeType"}

\* C23: the step of an updateJobFileInfo call writes the four file fields of the
\* named job's row and nothing else: no other field of any row, no Usage Event,
\* no Daily Usage Aggregate; nothing is published or sent, and the call is over.
C23_FileInfoOnlyFileFields ==
    [][ \A w \in Workers :
          (worker[w].pc = "idle" /\ worker'[w].op = "updateJobFileInfo") =>
              LET j == worker'[w].jobId
                  fi == worker'[w].fileInfo[1]
              IN  /\ worker'[w].pc = "done"
                  /\ published' = published /\ sent' = sent
                  /\ usageEvents' = usageEvents
                  /\ apiKeyUsageDaily' = apiKeyUsageDaily
                  /\ \A k \in JobIds :
                        \A f \in DOMAIN jobs[k] \ {"commits"} :
                            jobs'[k][f] = IF k = j /\ f \in FileFields THEN fi[f]
                                          ELSE jobs[k][f] ]_vars

\* job_a was completed (one Usage Event, one notification) and then got new file
\* metadata: it is still completed, with its results, event and aggregate
C23_Witness ==
    /\ jobs["job_a"].fileKey = "k1" /\ jobs["job_a"].mimeType = "m1"
    /\ jobs["job_a"].status = "completed"
    /\ jobs["job_a"].markdownResult = "md1"
    /\ jobs["job_a"].commits = 2
    /\ Cardinality(usageEvents) = 1
    /\ Len(published["job_a"]) = 1
    /\ AllWorkersIdle

\* C24: a completeJob call has published nothing before it is over; once it has
\* resolved it has published exactly one `completed` message, with the call's
\* markdown, JSON result and processing duration, handed to the bus after the
\* usage transaction was through; this holds for a repeated call on the same job
\* too, whose transaction adds no event.
C24_CompleteJobPublishesOnce ==
    \A w \in Workers :
        worker[w].op = "completeJob" =>
            LET ps == PublicationsOf(w)
                r == worker[w].result[1]
            IN  /\ worker[w].pc # "done" => Len(ps) = 0
                /\ (worker[w].pc = "done" /\ worker[w].outcome = "resolved") =>
                      /\ Len(ps) = 1
                      /\ ps[1].text.type = "completed"
                      /\ ps[1].text.jobId = worker[w].jobId
                      /\ ps[1].text.data.status = "completed"
                      /\ ps[1].text.data.markdownResult = r.markdownResult
                      /\ ps[1].text.data.jsonResult = r.jsonResult
                      /\ ps[1].text.data.processingTimeMs = Some(r.processingTimeMs)
                      /\ ps[1].committed
                      /\ worker[w].apiKeyId # Null =>
                            (worker[w].txDone /\ EventsOfJob(worker[w].jobId) # {})

\* two completeJob calls on job_a have resolved, the second with a JSON result:
\* two `completed` messages were published and one Usage Event recorded, that
\* of the first call
C24_Witness ==
    /\ \A w \in {1, 2} :
           /\ worker[w].op = "completeJob" /\ worker[w].pc = "done"
           /\ worker[w].outcome = "resolved" /\ worker[w].jobId = "job_a"
    /\ Len(published["job_a"]) = 2
    /\ published["job_a"][2].text.data.jsonResult = Some("json")
    /\ published["job_a"][2].call = 2
    /\ \A e \in usageEvents : e.id = 1
    /\ Cardinality(usageEvents) = 1

\* C25: no step changes a field of the row of a job that is in a terminal state.
C25_TerminalRowImmutable ==
    [][ \A j \in JobIds :
          Terminal(j) =>
              \A f \in DOMAIN jobs[j] \ {"commits"} : jobs'[j][f] = jobs[j][f] ]_vars

\* C30: when two failJob calls on one job have both written, the job's retry
\* count (0 at submission) has gone up by two, however the calls interleaved.
C30_InterleavedFailJobsBothCount ==
    \A w, v \in Workers :
        ( /\ w # v
          /\ worker[w].op = "failJob" /\ worker[v].op = "failJob"
          /\ worker[w].jobId = worker[v].jobId
          /\ worker[w].jobId \in JobIds
          /\ worker[w].written /\ worker[v].written )
        => jobs[worker[w].jobId].retryCount >= 2

StoreOps == {"updateJobStatus", "completeJob", "failJob"}

\* the UPDATE of the call in slot w fails in this step
WriteFails(w) ==
    /\ worker'[w] # worker[w]
    /\ worker'[w].op \in StoreOps
    /\ worker'[w].pc # "fj_write"
    /\ ~worker'[w].written

\* C26: the step in which the UPDATE of an updateJobStatus, completeJob or
\* failJob call fails ends the call with a rejection: no row is written (no
\* second attempt), nothing is published or sent, the ledger is untouched.
C26_FailedWritePropagates ==
    [][ \A w \in Workers :
          WriteFails(w) =>
              /\ worker'[w].pc = "done"
              /\ worker'[w].outcome = "rejected"
              /\ jobs' = jobs
              /\ published' = published /\ sent' = sent
              /\ usageEvents' = usageEvents
              /\ apiKeyUsageDaily' = apiKeyUsageDaily ]_vars

\* the UPDATE of a completeJob call and that of a failJob call (without retry)
\* on job_a have failed: both calls are rejected, job_a is as it was submitted
\* and nothing was published
C26_Witness ==
    /\ \E w, v \in Workers :
           /\ worker[w].op = "completeJob" /\ worker[v].op = "failJob"
           /\ ~worker[v].shouldRetry
           /\ \A u \in {w, v} :
                  /\ worker[u].pc = "done" /\ worker[u].outcome = "rejected"
                  /\ ~worker[u].written
    /\ jobs = InitJobs
    /\ published["job_a"] = <<>>

\* the usage transaction of the completeJob call in slot w fails in this step
TxFails(w) ==
    /\ worker[w].op = "completeJob" /\ worker[w].pc = "cj_tx_upsert"
    /\ worker'[w].pc # "cj_tx_upsert"
    /\ ~worker'[w].txDone

\* C27: when the usage transaction of a completeJob call fails, the call's row
\* write is already committed and stays: the call ends rejected, the job row is
\* `completed` and unchanged by the failure, no Usage Event of the call and no
\* change of the Daily Usage Aggregates exists, and the call has published and
\* publishes nothing.
C27_FailedTransactionKeepsRow ==
    [][ \A w \in Workers :
          TxFails(w) =>
              /\ worker[w].written
              /\ worker'[w].pc = "done" /\ worker'[w].outcome = "rejected"
              /\ jobs' = jobs
              /\ jobs[worker[w].jobId].status = "completed"
              /\ usageEvents' = usageEvents
              /\ \A e \in usageEvents : e.id # worker[w].call
              /\ apiKeyUsageDaily' = apiKeyUsageDaily
              /\ published' = published
              /\ Len(PublicationsOf(w)) = 0 ]_vars

\* the one completeJob call made has been rejected by its transaction: job_a is
\* completed, with the call's result, and there is no Usage Event, no
\* aggregate and no published message
C27_Witness ==
    /\ calls = 1
    /\ \E w \in Workers :
           /\ worker[w].op = "completeJob" /\ worker[w].pc = "done"
           /\ worker[w].outcome = "rejected" /\ worker[w].written
           /\ worker[w].jobId = "job_a"
    /\ jobs["job_a"].status = "completed"
    /\ usageEvents = {} /\ apiKeyUsageDaily = {}
    /\ published["job_a"] = <<>>

\* the credentials of connection c resolve to no organization
AuthFails(c) == conn[c].cred[1].kind = "none"

\* no job with the id of connection c belongs to the organization of its
\* credentials
LookupFails(c) ==
    \/ conn[c].jobId \notin DOMAIN jobs
    \/ jobs[conn[c].jobId].organizationId # conn[c].cred[1].organizationId

\* the connection-level error a refused connection is owed
RefusalText(c) == IF AuthFails(c) THEN UnauthorizedText ELSE JobNotFoundText

\* C28: a connection whose authentication or job lookup fails is sent nothing
\* while its open handler runs and then exactly one message, its
\* connection-level error (nothing if the peer has closed before), and is
\* closed; it is never subscribed and never sent a message of a job. A
\* connection that passes both checks is sent the synthetic status first and
\* only notifications from the bus after it.
C28_RefusedOrSyntheticFirst ==
    \A c \in Conns :
        conn[c].pc # "new" =>
            IF AuthFails(c) \/ LookupFails(c)
            THEN /\ \A j \in AllJobIds : c \notin subscribers[j]
                 /\ conn[c].pc # "finished" => sent[c] = <<>>
                 /\ conn[c].pc = "finished" =>
                        /\ conn[c].closed
                        /\ sent[c] = IF conn[c].closedBy = "server"
                                     THEN << Entry(RefusalText(c), 0, 0, TRUE) >>
                                     ELSE << >>
            ELSE /\ (c \in subscribers[conn[c].jobId] /\ ~conn[c].closed)
                        => sent[c] # <<>>
                 /\ sent[c] # <<>> =>
                        /\ sent[c][1].call = 0
                        /\ sent[c][1].text.type = "status"
                        /\ sent[c][1].text.jobId = conn[c].jobId
                        /\ \A i \in 2..Len(sent[c]) : sent[c][i].call # 0

\* a peer of organization B asking for job_a has been refused with its one
\* error message and closed, while two notifications of job_a were published
C28_Witness ==
    /\ conn[1].pc = "finished" /\ conn[1].jobId = "job_a"
    /\ conn[1].cred[1].organizationId = "org_B"
    /\ conn[1].closedBy = "server" /\ conn[1].closeHandled
    /\ sent[1] = << Entry(JobNotFoundText, 0, 0, TRUE) >>
    /\ Len(published["job_a"]) = 2

\* a peer of organization A was admitted to job_a and has the synthetic status
\* and then a notification of job_a
C28_WitnessAdmitted ==
    /\ conn[1].pc = "finished" /\ conn[1].jobId = "job_a"
    /\ conn[1].cred[1].organizationId = "org_A"
    /\ Len(sent[1]) = 2 /\ sent[1][1].call = 0 /\ sent[1][2].call # 0

\* the jobs for which the callback of connection c is subscribed
SubscriptionsOf(c) == { j \in AllJobIds : c \in subscribers[j] }

\* C29: every message of a job sent on a connection is of the job named in the
\* connection's URL, whatever the Job Store does on other jobs, and the
\* callback of a connection is subscribed for no job but that one.
C29_OnlyOwnJob ==
    \A c \in Conns :
        conn[c].pc # "new" =>
            /\ SubscriptionsOf(c) \subseteq {conn[c].jobId}
            /\ \A i \in 1..Len(sent[c]) :
                   "jobId" \in DOMAIN sent[c][i].text
                       => sent[c][i].text.jobId = conn[c].jobId

\* connection 1 watches job_a and connection 2 job_b; a notification was
\* published for each job while both were subscribed, and each connection has
\* its synthetic status and the notification of its own job
C29_Witness ==
    /\ SubscriptionsOf(1) = {"job_a"} /\ SubscriptionsOf(2) = {"job_b"}
    /\ Len(published["job_a"]) = 1 /\ published["job_a"][1].to = {1}
    /\ Len(published["job_b"]) = 1 /\ published["job_b"][1].to = {2}
    /\ Len(sent[1]) = 2 /\ Len(sent[2]) = 2
    /\ sent[2][2].text.type = "error"

\* a step of the completeJob call in slot w
CompleteStep(w) ==
    /\ worker'[w] # worker[w]
    /\ worker'[w].op = "completeJob"

\* C31: no step changes or removes a Usage Event; a step of a completeJob call
\* on a job that has its Usage Event leaves the Usage Events and the Daily
\* Usage Aggregates as they are, whatever counts the call carries; and the
\* call's write gives the job row the call's markdown, page count, duration
\* and, where the call gives them, token count, model and JSON result.
C31_LedgerKeepsFirstCompletion ==
    [][ /\ usageEvents \subseteq usageEvents'
        /\ \A w \in Workers :
              CompleteStep(w) =>
                  LET j == worker'[w].jobId
                      r == worker'[w].result[1]
                  IN  /\ EventsOfJob(j) # {} =>
                            /\ usageEvents' = usageEvents
                            /\ apiKeyUsageDaily' = apiKeyUsageDaily
                      /\ worker[w].pc = "idle" =>
                            /\ jobs'[j].status = "completed"
                            /\ jobs'[j].markdownResult = r.markdownResult
                            /\ jobs'[j].pageCount = Some(r.pageCount)
                            /\ jobs'[j].processingTimeMs = r.processingTimeMs
                            /\ jobs'[j].tokenCount =
                                  IF r.tokenCount = None THEN jobs[j].tokenCount
                                  ELSE r.tokenCount
                            /\ jobs'[j].llmModel = SetOpt(jobs[j].llmModel, r.llmModel)
                            /\ jobs'[j].jsonResult = SetOpt(jobs[j].jsonResult, r.jsonResult)
      ]_vars

\* completeJob has run twice on job_a, first with no page and no tokens, then
\* with pages and tokens: the one Usage Event and the one aggregate hold the
\* counts of the first call, the row those of the second
C31_Witness ==
    /\ \A w \in Workers : worker[w].pc \in {"idle", "done"}
    /\ calls = 2
    /\ usageEvents # {}
    /\ \A e \in usageEvents :
           /\ e.jobId = "job_a" /\ e.id = 1
           /\ e.pages = 0 /\ e.promptTokens = 0 /\ e.completionTokens = 0
    /\ apiKeyUsageDaily # {}
    /\ \A d \in apiKeyUsageDaily :
           d.jobsCount = 1 /\ d.pages = 0 /\ d.promptTokens = 0
    /\ jobs["job_a"].pageCount = Some(MaxPages)
    /\ jobs["job_a"].tokenCount = Some(3)
    /\ Len(published["job_a"]) = 2

\* C32: a subscription never has more than one ping timer, and has none before
\* its socket has opened, after its close event and after its unsubscribe
\* function was called (whichever comes first, also before the open); a ping
\* is sent only on a socket that has opened and has neither had its close
\* event nor been closed by unsubscribe.
C32_PingTimerLifetime ==
    [][ \A s \in Subscriptions :
          /\ Cardinality(sdk'[s].timers) <= 1
          /\ sdk'[s].timers =
                 IF sdk'[s].pingInterval = None THEN {}
                 ELSE {sdk'[s].pingInterval[1]}
          /\ (sdk'[s].ws # "open" \/ sdk'[s].unsubscribed) => sdk'[s].timers = {}
          /\ sdk'[s].intervals <= 1
          /\ sdk'[s].pings # sdk[s].pings =>
                 /\ sdk[s].ws = "open"
                 /\ ~sdk[s].unsubscribed ]_vars

\* one subscription has pinged and then had its close event, and its
\* unsubscribe function was called after it; the other was unsubscribed
\* before its socket opened and never had a timer
C32_Witness ==
    /\ sdk[1].ws = "closed" /\ sdk[1].pings >= 1 /\ sdk[1].unsubscribed
    /\ sdk[1].timers = {}
    /\ sdk[2].ws = "closed" /\ sdk[2].unsubscribed /\ sdk[2].intervals = 0
    /\ sdk[2].pings = 0

====
